---------------------------- MODULE Spec2Model ----------------------------
(***************************************************************************)
(* mdboard-tui: the live-sync engine (poll.rs), the application state      *)
(* (app.rs) and the UI loop with its key and message handlers (main.rs).   *)
(*                                                                         *)
(* Rust's Option<T> and Result<T, E> are modelled as sequences of length   *)
(* at most one: <<>> is None / Err(_), <<x>> is Some(x) / Ok(x).  Indices  *)
(* keep Rust's 0-based values; a Vec v is a sequence and v[i] in Rust is   *)
(* v[i + 1] here.                                                          *)
(***************************************************************************)
EXTENDS Integers, Sequences, FiniteSets, TLC

VARIABLES
    app,        \* main.rs run_app: `let mut app = App::new()`
    ui_pc,      \* position of the UI loop of run_app
    lastKey,    \* history: the key handled last by handle_key ("" before any)
    lastAnswer, \* history: what the remote answered to that key's fetches
    chan,       \* the mpsc::unbounded_channel::<PollMessage>() of run_app
    pc,         \* position of the task spawned by spawn_poller
    was_connected,  \* poll.rs spawn_poller: `let mut was_connected`
    last_hashes,    \* poll.rs connect_sse: `let mut last_hashes`
    hashes,     \* poll.rs connect_sse: the parsed triple being diffed
    changed,    \* poll.rs connect_sse: `let mut changed`
    stream,     \* blocks of the open event stream not yet read by connect_sse
    srv,        \* the remote board: what the fetches and the stream report
    log         \* history of the engine: messages sent, fetches made

uiVars == <<app, ui_pc, lastKey, lastAnswer>>
engineVars == <<pc, was_connected, last_hashes, hashes, changed>>
envVars == <<stream, srv>>
vars == <<app, ui_pc, lastKey, lastAnswer, chan, pc, was_connected,
          last_hashes, hashes, changed, stream, srv, log>>

-----------------------------------------------------------------------------
(* Bounds of the model *)

MaxCols == 2        \* columns of a board
MaxTasks == 2       \* tasks of a column
MaxLen == 2         \* entries of the prompts, documents and activity lists
MaxRevs == 3        \* revisions of a resource
MaxComments == 1    \* comments of a task
MaxScroll == 2      \* scroll offset of an overlay
MaxChan == 2        \* messages waiting in the channel
MaxStream == 2      \* blocks of the event stream waiting to be read
MaxChanges == 2
MaxOffset == 2015   \* scroll offset of an overlay, where the scroll keys are studied     \* changes of the remote board

-----------------------------------------------------------------------------
(* Option / Result *)

None == <<>>
Some(x) == <<x>>
Err == <<>>
Ok(x) == <<x>>
IsSome(o) == o # <<>>
IsOk(r) == r # <<>>
Unwrap(o) == o[1]

Min(x, y) == IF x < y THEN x ELSE y
Max(x, y) == IF x > y THEN x ELSE y

-----------------------------------------------------------------------------
(* model.rs: the fetched entities, as far as the handlers read them *)

\* model.rs Task: filename identifies it; `from` tells the board's summary
\* ("board") from the answer of /api/task ("task").
Task(c, i) == [column |-> c, filename |-> i, id |-> Some(i), from |-> "board"]

\* model.rs Column: its tasks (name, label and color are only rendered)
Column(c, n) == [i \in 1..n |-> Task(c, i)]

\* model.rs Board: its columns.  Every board of at most MaxCols columns of at
\* most MaxTasks tasks each.
Boards ==
    UNION {{[c \in 1..nc |-> Column(c, f[c])] : f \in [1..nc -> 0..MaxTasks]}
              : nc \in 0..MaxCols}

\* model.rs Resource: dir_name identifies it; `from` tells the list's
\* summary ("list") from the answer of /api/{kind}/{dir} ("detail").
Resource(i) == [dir_name |-> i, from |-> "list"]

\* The resource lists of at most MaxLen entries
ResourceLists == {[i \in 1..n |-> Resource(i)] : n \in 0..MaxLen}

\* model.rs ActivityEntry
EntryTypes == <<"task", "prompt", "document", "other">>
ActivityEntry(i) ==
    [entry_type |-> EntryTypes[((i - 1) % 4) + 1], id |-> Some(i),
     ref |-> Some(i)]     \* ref: column and filename, or dir_name

\* The activity lists of at most MaxLen entries
ActivityLists == {[i \in 1..n |-> ActivityEntry(i)] : n \in 0..MaxLen}

\* model.rs Revision / Comment lists: only their length is read
ItemList(n) == [i \in 1..n |-> i]

TheVersion == "v"   \* model.rs VersionInfo, as served
TheConfig == "c"    \* model.rs Config, as served

-----------------------------------------------------------------------------
(* app.rs *)

Views == <<"Board", "Prompts", "Documents", "Activity">>    \* View::ALL

\* View::index
index(v) == CHOOSE i \in 0..3 : Views[i + 1] = v

\* View::from_index
from_index(i) == IF i \in 0..3 THEN Views[i + 1] ELSE "Board"

\* Mutant of View::next: the last view has no next one
next_stops_at_last(v) == from_index(Min(index(v) + 1, Len(Views) - 1))

\* View::next
next(v) == from_index((index(v) + 1) % Len(Views))

\* View::prev
prev(v) == from_index((index(v) + Len(Views) - 1) % Len(Views))

\* App::new
AppNew ==
    [view |-> "Board", overlay |-> None, should_quit |-> FALSE,
     focus |-> "Content",
     version |-> None, board |-> None, config |-> None,
     prompts |-> <<>>, documents |-> <<>>, activity |-> <<>>,
     board_col |-> 0, board_row |-> <<>>,
     prompt_index |-> 0, document_index |-> 0, activity_index |-> 0,
     connection |-> "Connecting", last_poll |-> None, poll_hashes |-> None,
     loading |-> TRUE]

\* App::column_count
column_count(a) == IF IsSome(a.board) THEN Len(Unwrap(a.board)) ELSE 0

\* App::current_column_tasks
current_column_tasks(a) ==
    IF IsSome(a.board) /\ a.board_col < Len(Unwrap(a.board))
    THEN Unwrap(a.board)[a.board_col + 1]
    ELSE <<>>

\* Mutant of current_board_row: one row is shared by all columns
current_board_row_shared(a) ==
    IF 0 < Len(a.board_row) THEN a.board_row[1] ELSE 0

\* App::current_board_row
current_board_row(a) ==
    IF a.board_col < Len(a.board_row) THEN a.board_row[a.board_col + 1] ELSE 0

\* App::set_board_row
set_board_row(a, row) ==
    LET n == Max(Len(a.board_row), a.board_col + 1)
        grown == [i \in 1..n |->
                    IF i <= Len(a.board_row) THEN a.board_row[i] ELSE 0]
    IN  [a EXCEPT !.board_row = [grown EXCEPT ![a.board_col + 1] = row]]

\* App::selected_task
selected_task(a) ==
    LET tasks == current_column_tasks(a)
        row == current_board_row(a)
    IN  IF row < Len(tasks) THEN Some(tasks[row + 1]) ELSE None

\* App::ensure_board_row_vec
ensure_board_row_vec(a) ==
    LET ncols == column_count(a)
    IN  IF Len(a.board_row) < ncols
        THEN [a EXCEPT !.board_row =
                [i \in 1..ncols |->
                    IF i <= Len(a.board_row) THEN a.board_row[i] ELSE 0]]
        ELSE a

\* App::clamp_indices, the board column (lines 197-200)
clamp_board_col(a) ==
    LET ncols == column_count(a)
    IN  IF ncols > 0 /\ a.board_col >= ncols
        THEN [a EXCEPT !.board_col = ncols - 1]
        ELSE a

\* App::clamp_indices, the per-column rows (lines 202-210)
clamp_board_rows(a) ==
    IF IsSome(a.board)
    THEN LET columns == Unwrap(a.board)
         IN  [a EXCEPT !.board_row =
                [i \in 1..Len(a.board_row) |->
                    IF /\ i <= Len(columns)
                       /\ Len(columns[i]) # 0
                       /\ a.board_row[i] >= Len(columns[i])
                    THEN Len(columns[i]) - 1
                    ELSE a.board_row[i]]]
    ELSE a

\* App::clamp_indices, one list index (lines 211-219)
clamp_index(idx, len) == IF len # 0 /\ idx >= len THEN len - 1 ELSE idx

\* App::clamp_indices
clamp_indices(a) ==
    LET b == clamp_board_rows(ensure_board_row_vec(clamp_board_col(a)))
    IN  [b EXCEPT
           !.prompt_index = clamp_index(b.prompt_index, Len(b.prompts)),
           !.document_index = clamp_index(b.document_index, Len(b.documents)),
           !.activity_index = clamp_index(b.activity_index, Len(b.activity))]

-----------------------------------------------------------------------------
(* poll.rs PollMessage *)

InitialData(v, b, c, p, d, a) ==
    [kind |-> "InitialData", version |-> v, board |-> b, config |-> c,
     prompts |-> p, documents |-> d, activity |-> a]
HashesChanged(h) == [kind |-> "HashesChanged", hashes |-> h]
BoardUpdated(b) == [kind |-> "BoardUpdated", board |-> b]
PromptsUpdated(p) == [kind |-> "PromptsUpdated", prompts |-> p]
DocumentsUpdated(d) == [kind |-> "DocumentsUpdated", documents |-> d]
ActivityUpdated(a) == [kind |-> "ActivityUpdated", activity |-> a]
ConnectionLost == [kind |-> "ConnectionLost"]
ConnectionRestored == [kind |-> "ConnectionRestored"]
Error == [kind |-> "Error"]

-----------------------------------------------------------------------------
(* main.rs: the reducer of poll messages *)

\* Mutant of handle_poll_message: InitialData closes the overlay
handle_poll_message_closes_overlay(a, msg) ==
    CASE msg.kind = "InitialData" ->
            clamp_indices(ensure_board_row_vec(
                [a EXCEPT !.version = Some(msg.version),
                          !.board = Some(msg.board),
                          !.config = Some(msg.config),
                          !.prompts = msg.prompts,
                          !.documents = msg.documents,
                          !.activity = msg.activity,
                          !.connection = "Connected",
                          !.loading = FALSE,
                          !.overlay = None]))
      [] msg.kind = "HashesChanged" ->
            [a EXCEPT !.poll_hashes = Some(msg.hashes),
                      !.last_poll = Some("now")]
      [] msg.kind = "BoardUpdated" ->
            clamp_indices(ensure_board_row_vec(
                [a EXCEPT !.board = Some(msg.board)]))
      [] msg.kind = "PromptsUpdated" ->
            clamp_indices([a EXCEPT !.prompts = msg.prompts])
      [] msg.kind = "DocumentsUpdated" ->
            clamp_indices([a EXCEPT !.documents = msg.documents])
      [] msg.kind = "ActivityUpdated" ->
            clamp_indices([a EXCEPT !.activity = msg.activity])
      [] msg.kind = "ConnectionLost" ->
            [a EXCEPT !.connection = "Disconnected"]
      [] msg.kind = "ConnectionRestored" ->
            [a EXCEPT !.connection = "Connected"]
      [] msg.kind = "Error" -> a

\* main.rs handle_poll_message
handle_poll_message(a, msg) ==
    CASE msg.kind = "InitialData" ->
            clamp_indices(ensure_board_row_vec(
                [a EXCEPT !.version = Some(msg.version),
                          !.board = Some(msg.board),
                          !.config = Some(msg.config),
                          !.prompts = msg.prompts,
                          !.documents = msg.documents,
                          !.activity = msg.activity,
                          !.connection = "Connected",
                          !.loading = FALSE]))
      [] msg.kind = "HashesChanged" ->
            [a EXCEPT !.poll_hashes = Some(msg.hashes),
                      !.last_poll = Some("now")]
      [] msg.kind = "BoardUpdated" ->
            clamp_indices(ensure_board_row_vec(
                [a EXCEPT !.board = Some(msg.board)]))
      [] msg.kind = "PromptsUpdated" ->
            clamp_indices([a EXCEPT !.prompts = msg.prompts])
      [] msg.kind = "DocumentsUpdated" ->
            clamp_indices([a EXCEPT !.documents = msg.documents])
      [] msg.kind = "ActivityUpdated" ->
            clamp_indices([a EXCEPT !.activity = msg.activity])
      [] msg.kind = "ConnectionLost" ->
            [a EXCEPT !.connection = "Disconnected"]
      [] msg.kind = "ConnectionRestored" ->
            [a EXCEPT !.connection = "Connected"]
      [] msg.kind = "Error" -> a


-----------------------------------------------------------------------------
(* app.rs Overlay *)

TaskDetail(task, comments, scroll) ==
    [tag |-> "TaskDetail", task |-> task, comments |-> comments,
     scroll |-> scroll]
ResourceDetail(resource, revisions, current_rev, scroll, resource_type) ==
    [tag |-> "ResourceDetail", resource |-> resource,
     revisions |-> revisions, current_rev |-> current_rev, scroll |-> scroll,
     resource_type |-> resource_type]
Help(scroll) == [tag |-> "Help", scroll |-> scroll]

-----------------------------------------------------------------------------
(* main.rs: the key handlers.  `r` is what the remote answers to the fetches*)
(* a handler awaits: r.fetch to the list fetch of a refresh, r.detail to the*)
(* fetch of one task or resource, r.sub to that of its comments or          *)
(* revisions.                                                               *)

\* Mutant of scroll_overlay: the sum is not held at 0
scroll_overlay_unclamped(a, delta) ==
    IF IsSome(a.overlay)
    THEN [a EXCEPT !.overlay[1].scroll = @ + delta]
    ELSE a

\* main.rs scroll_overlay
scroll_overlay(a, delta) ==
    IF IsSome(a.overlay)
    THEN [a EXCEPT !.overlay[1].scroll = Max(@ + delta, 0)]
    ELSE a

\* main.rs set_overlay_scroll
set_overlay_scroll(a, value) ==
    IF IsSome(a.overlay) THEN [a EXCEPT !.overlay[1].scroll = value] ELSE a

\* Mutant of new_rev: a step below the oldest revision stays on it
new_rev_clamps_at_oldest(current_rev, len, delta) ==
    IF current_rev = None
    THEN IF delta < 0 THEN Some(Some(len - 1)) ELSE <<>>
    ELSE LET new_idx == Unwrap(current_rev) + delta
         IN  IF new_idx >= len THEN Some(None)
             ELSE Some(Some(Max(new_idx, 0)))

\* Mutant of new_rev: "older" from the current version goes to the oldest
\* revision
new_rev_starts_at_oldest(current_rev, len, delta) ==
    IF current_rev = None
    THEN IF delta < 0 THEN Some(Some(0)) ELSE <<>>
    ELSE LET new_idx == Unwrap(current_rev) + delta
         IN  IF new_idx < 0 \/ new_idx >= len
             THEN Some(None)
             ELSE Some(Some(new_idx))

\* Mutant of new_rev: the upper bound is checked with > in place of >=
new_rev_off_by_one(current_rev, len, delta) ==
    IF current_rev = None
    THEN IF delta < 0 THEN Some(Some(len - 1)) ELSE <<>>
    ELSE LET new_idx == Unwrap(current_rev) + delta
         IN  IF new_idx < 0 \/ new_idx > len
             THEN Some(None)
             ELSE Some(Some(new_idx))

\* main.rs navigate_revision: the new cursor (lines 551-569); <<>> where the
\* function returns early
new_rev(current_rev, len, delta) ==
    IF current_rev = None
    THEN IF delta < 0 THEN Some(Some(len - 1)) ELSE <<>>
    ELSE LET new_idx == Unwrap(current_rev) + delta
         IN  IF new_idx < 0 \/ new_idx >= len
             THEN Some(None)
             ELSE Some(Some(new_idx))

\* Mutant of navigate_revision: the scroll offset is kept
navigate_revision_keeps_scroll(a, delta) ==
    IF IsSome(a.overlay) /\ Unwrap(a.overlay).tag = "ResourceDetail"
    THEN LET o == Unwrap(a.overlay)
             n == new_rev(o.current_rev, Len(o.revisions), delta)
         IN  IF o.revisions = <<>> \/ n = <<>>
             THEN a
             ELSE [a EXCEPT !.overlay[1].current_rev = Unwrap(n)]
    ELSE a

\* main.rs navigate_revision
navigate_revision(a, delta) ==
    IF IsSome(a.overlay) /\ Unwrap(a.overlay).tag = "ResourceDetail"
    THEN LET o == Unwrap(a.overlay)
             n == new_rev(o.current_rev, Len(o.revisions), delta)
         IN  IF o.revisions = <<>> \/ n = <<>>
             THEN a
             ELSE [a EXCEPT !.overlay[1].current_rev = Unwrap(n),
                            !.overlay[1].scroll = 0]
    ELSE a

\* main.rs handle_overlay_key
handle_overlay_key(a, key) ==
    CASE key \in {"Esc", "q"} -> [a EXCEPT !.overlay = None]
      [] key \in {"j", "Down"} -> scroll_overlay(a, 1)
      [] key \in {"k", "Up"} -> scroll_overlay(a, -1)
      [] key \in {"Space", "Ctrl+d"} -> scroll_overlay(a, 15)
      [] key = "Ctrl+u" -> scroll_overlay(a, -15)
      [] key = "g" -> set_overlay_scroll(a, 0)
      [] key = "G" -> scroll_overlay(a, 1000)
      [] key = "[" -> navigate_revision(a, -1)
      [] key = "]" -> navigate_revision(a, 1)
      [] OTHER -> a

\* Mutant of refresh_current_view: a failed fetch empties the list of the
\* Prompts, Documents and Activity views
refresh_current_view_clears_on_failure(a, r) ==
    IF ~IsOk(r.fetch)
    THEN CASE a.view = "Board" -> a
           [] a.view = "Prompts" -> clamp_indices([a EXCEPT !.prompts = <<>>])
           [] a.view = "Documents" ->
                clamp_indices([a EXCEPT !.documents = <<>>])
           [] a.view = "Activity" ->
                clamp_indices([a EXCEPT !.activity = <<>>])
    ELSE CASE a.view = "Board" ->
                clamp_indices(ensure_board_row_vec(
                    [a EXCEPT !.board = Some(Unwrap(r.fetch))]))
           [] a.view = "Prompts" ->
                clamp_indices([a EXCEPT !.prompts = Unwrap(r.fetch)])
           [] a.view = "Documents" ->
                clamp_indices([a EXCEPT !.documents = Unwrap(r.fetch)])
           [] a.view = "Activity" ->
                clamp_indices([a EXCEPT !.activity = Unwrap(r.fetch)])

\* main.rs refresh_current_view
refresh_current_view(a, r) ==
    IF ~IsOk(r.fetch)
    THEN a
    ELSE CASE a.view = "Board" ->
                clamp_indices(ensure_board_row_vec(
                    [a EXCEPT !.board = Some(Unwrap(r.fetch))]))
           [] a.view = "Prompts" ->
                clamp_indices([a EXCEPT !.prompts = Unwrap(r.fetch)])
           [] a.view = "Documents" ->
                clamp_indices([a EXCEPT !.documents = Unwrap(r.fetch)])
           [] a.view = "Activity" ->
                clamp_indices([a EXCEPT !.activity = Unwrap(r.fetch)])

\* unwrap_or(x) / unwrap_or_default() of a Result
unwrap_or(res, x) == IF IsOk(res) THEN Unwrap(res) ELSE x

\* Mutant of open_task_detail: no overlay when the task cannot be fetched
open_task_detail_needs_task(a, task, r) ==
    IF IsOk(r.detail)
    THEN LET comments == IF IsSome(task.id)
                         THEN unwrap_or(r.sub, <<>>)
                         ELSE <<>>
         IN  [a EXCEPT !.overlay =
                Some(TaskDetail(Unwrap(r.detail), comments, 0))]
    ELSE a

\* main.rs handle_board_key lines 284-304: the selected task is opened
open_task_detail(a, task, r) ==
    LET full_task == unwrap_or(r.detail, task)
        comments == IF IsSome(task.id)
                    THEN unwrap_or(r.sub, <<>>)
                    ELSE <<>>
    IN  [a EXCEPT !.overlay = Some(TaskDetail(full_task, comments, 0))]

\* main.rs handle_board_key
handle_board_key(a, key, r) ==
    LET ncols == column_count(a)
        tasks_len == Len(current_column_tasks(a))
        row == current_board_row(a)
    IN  IF ncols = 0 THEN a
        ELSE CASE key \in {"h", "Left"} ->
                    IF a.board_col > 0
                    THEN [a EXCEPT !.board_col = @ - 1] ELSE a
               [] key \in {"l", "Right"} ->
                    IF a.board_col + 1 < ncols
                    THEN [a EXCEPT !.board_col = @ + 1] ELSE a
               [] key \in {"j", "Down"} ->
                    IF tasks_len > 0 /\ row + 1 < tasks_len
                    THEN set_board_row(a, row + 1) ELSE a
               [] key \in {"k", "Up"} ->
                    IF row > 0
                    THEN set_board_row(a, row - 1)
                    ELSE [a EXCEPT !.focus = "TabBar"]
               [] key = "g" -> set_board_row(a, 0)
               [] key = "G" ->
                    IF tasks_len > 0
                    THEN set_board_row(a, tasks_len - 1) ELSE a
               [] key \in {"Enter", "Space"} ->
                    IF IsSome(selected_task(a))
                    THEN open_task_detail(a, Unwrap(selected_task(a)), r)
                    ELSE a
               [] OTHER -> a

\* main.rs handle_list_key
handle_list_key(a, key, rtype, r) ==
    LET list == IF rtype = "Prompt" THEN a.prompts ELSE a.documents
        len == Len(list)
        idx == IF rtype = "Prompt" THEN a.prompt_index ELSE a.document_index
        set(i) == IF rtype = "Prompt"
                  THEN [a EXCEPT !.prompt_index = i]
                  ELSE [a EXCEPT !.document_index = i]
    IN  IF len = 0
        THEN IF key \in {"k", "Up"} THEN [a EXCEPT !.focus = "TabBar"] ELSE a
        ELSE CASE key \in {"j", "Down"} ->
                    IF idx + 1 < len THEN set(idx + 1) ELSE a
               [] key \in {"k", "Up"} ->
                    IF idx > 0 THEN set(idx - 1)
                    ELSE [a EXCEPT !.focus = "TabBar"]
               [] key = "g" -> set(0)
               [] key = "G" -> set(len - 1)
               [] key \in {"Enter", "Space"} ->
                    IF idx < len
                    THEN LET res == list[idx + 1]
                             full_res == unwrap_or(r.detail, res)
                             revisions == unwrap_or(r.sub, <<>>)
                         IN  [a EXCEPT !.overlay =
                                Some(ResourceDetail(full_res, revisions, None,
                                                    0, rtype))]
                    ELSE a
               [] OTHER -> a

\* main.rs open_activity_entry
open_activity_entry(a, entry, r) ==
    CASE entry.entry_type = "task" ->
            IF IsSome(entry.ref) /\ IsOk(r.detail)
            THEN LET comments == IF IsSome(entry.id)
                                 THEN unwrap_or(r.sub, <<>>)
                                 ELSE <<>>
                 IN  [a EXCEPT !.overlay =
                        Some(TaskDetail(Unwrap(r.detail), comments, 0))]
            ELSE a
      [] entry.entry_type \in {"prompt", "document"} ->
            IF IsSome(entry.ref) /\ IsOk(r.detail)
            THEN [a EXCEPT !.overlay =
                    Some(ResourceDetail(
                        Unwrap(r.detail), unwrap_or(r.sub, <<>>), None, 0,
                        IF entry.entry_type = "prompt"
                        THEN "Prompt" ELSE "Document"))]
            ELSE a
      [] OTHER -> a

\* main.rs handle_activity_key
handle_activity_key(a, key, r) ==
    LET len == Len(a.activity)
    IN  IF len = 0
        THEN IF key \in {"k", "Up"} THEN [a EXCEPT !.focus = "TabBar"] ELSE a
        ELSE CASE key \in {"j", "Down"} ->
                    IF a.activity_index + 1 < len
                    THEN [a EXCEPT !.activity_index = @ + 1] ELSE a
               [] key \in {"k", "Up"} ->
                    IF a.activity_index > 0
                    THEN [a EXCEPT !.activity_index = @ - 1]
                    ELSE [a EXCEPT !.focus = "TabBar"]
               [] key = "g" -> [a EXCEPT !.activity_index = 0]
               [] key = "G" -> [a EXCEPT !.activity_index = len - 1]
               [] key \in {"Enter", "Space"} ->
                    IF a.activity_index < len
                    THEN open_activity_entry(
                            a, a.activity[a.activity_index + 1], r)
                    ELSE a
               [] OTHER -> a

\* Mutant of handle_tab_bar_key: up and k cycle to the previous view
handle_tab_bar_key_up_cycles(a, key) ==
    CASE key \in {"h", "Left", "BackTab", "k", "Up"} ->
            [a EXCEPT !.view = prev(@)]
      [] key \in {"l", "Right", "Tab"} -> [a EXCEPT !.view = next(@)]
      [] key \in {"j", "Down", "Enter", "Space", "Esc"} ->
            [a EXCEPT !.focus = "Content"]
      [] OTHER -> a

\* main.rs handle_key, focus on the tab bar (lines 204-221)
handle_tab_bar_key(a, key) ==
    CASE key \in {"h", "Left", "BackTab"} -> [a EXCEPT !.view = prev(@)]
      [] key \in {"l", "Right", "Tab"} -> [a EXCEPT !.view = next(@)]
      [] key \in {"j", "Down", "Enter", "Space"} ->
            [a EXCEPT !.focus = "Content"]
      [] key = "Esc" -> [a EXCEPT !.focus = "Content"]
      [] OTHER -> a

\* main.rs handle_key lines 182-236: the key is not Ctrl+C, no overlay is open
handle_key_no_overlay(a, key, r) ==
    CASE key = "q" -> [a EXCEPT !.should_quit = TRUE]
      [] key = "1" -> [a EXCEPT !.view = "Board", !.focus = "Content"]
      [] key = "2" -> [a EXCEPT !.view = "Prompts", !.focus = "Content"]
      [] key = "3" ->
           [a EXCEPT !.view = "Documents", !.focus = "Content"]
      [] key = "4" -> [a EXCEPT !.view = "Activity", !.focus = "Content"]
      [] key = "?" -> [a EXCEPT !.overlay = Some(Help(0))]
      [] key = "r" -> refresh_current_view(a, r)
      [] OTHER ->
           IF a.focus = "TabBar" THEN handle_tab_bar_key(a, key)
           ELSE CASE key = "Tab" -> [a EXCEPT !.view = next(@)]
                  [] key = "BackTab" -> [a EXCEPT !.view = prev(@)]
                  [] OTHER ->
                       CASE a.view = "Board" ->
                               handle_board_key(a, key, r)
                         [] a.view = "Prompts" ->
                               handle_list_key(a, key, "Prompt", r)
                         [] a.view = "Documents" ->
                               handle_list_key(a, key, "Document", r)
                         [] a.view = "Activity" ->
                               handle_activity_key(a, key, r)

\* Mutant of handle_key: an open overlay gets the key before Ctrl+C is
\* looked for
handle_key_overlay_first(a, key, r) ==
    IF IsSome(a.overlay) THEN handle_overlay_key(a, key)
    ELSE IF key = "Ctrl+c" THEN [a EXCEPT !.should_quit = TRUE]
    ELSE handle_key_no_overlay(a, key, r)

\* Mutant of handle_key: 'q' quits before an open overlay gets the key
handle_key_q_first(a, key, r) ==
    IF key \in {"Ctrl+c", "q"} THEN [a EXCEPT !.should_quit = TRUE]
    ELSE IF IsSome(a.overlay) THEN handle_overlay_key(a, key)
    ELSE handle_key_no_overlay(a, key, r)

\* main.rs handle_key
handle_key(a, key, r) ==
    IF key = "Ctrl+c" THEN [a EXCEPT !.should_quit = TRUE]
    ELSE IF IsSome(a.overlay) THEN handle_overlay_key(a, key)
    ELSE handle_key_no_overlay(a, key, r)

\* The keys handle_key and handle_overlay_key tell apart; "x" is any other
Keys ==
    {"Ctrl+c", "q", "1", "2", "3", "4", "?", "r", "h", "Left", "BackTab",
     "l", "Right", "Tab", "j", "Down", "k", "Up", "Enter", "Space", "Esc",
     "g", "G", "Ctrl+d", "Ctrl+u", "[", "]", "x"}


-----------------------------------------------------------------------------
(* The remote, as the fetches see it.  A world W gives the answers a fetch  *)
(* can get: the contents of each category, and whether a fetch may fail.    *)

Results(S, fail) == {Ok(x) : x \in S} \cup (IF fail THEN {Err} ELSE {})

\* api.rs ApiClient::board / list_prompts / list_documents / activity
FetchOutcomes(W, cat) == Results(W[cat], W.fail)

\* The six concurrent requests of fetch_all (poll.rs lines 165-172), answered
\* from one state of the remote
FetchAllOutcomes(W) ==
    [version : Results({TheVersion}, W.fail),
     board : Results(W.board, W.fail),
     config : Results({TheConfig}, W.fail),
     prompts : Results(W.prompts, W.fail),
     documents : Results(W.documents, W.fail),
     activity : Results(W.activity, W.fail)]

\* Mutant of fetch_all: a failed config fetch is papered over
fetch_all_skips_config(r) ==
    IF /\ IsOk(r.version) /\ IsOk(r.board)
       /\ IsOk(r.prompts) /\ IsOk(r.documents) /\ IsOk(r.activity)
    THEN Ok(InitialData(Unwrap(r.version), Unwrap(r.board),
                        unwrap_or(r.config, TheConfig), Unwrap(r.prompts),
                        Unwrap(r.documents), Unwrap(r.activity)))
    ELSE Err

\* poll.rs fetch_all: tokio::try_join! fails when any of the six fails
fetch_all(r) ==
    IF /\ IsOk(r.version) /\ IsOk(r.board) /\ IsOk(r.config)
       /\ IsOk(r.prompts) /\ IsOk(r.documents) /\ IsOk(r.activity)
    THEN Ok(InitialData(Unwrap(r.version), Unwrap(r.board), Unwrap(r.config),
                        Unwrap(r.prompts), Unwrap(r.documents),
                        Unwrap(r.activity)))
    ELSE Err

-----------------------------------------------------------------------------
(* poll.rs: blocks of the event stream.  A block is its lines; a line is    *)
(* `event: <name>`, `data: <payload>`, or anything else (a comment).  A     *)
(* payload is the JSON text: `decodes` tells whether serde_json decodes it  *)
(* as PollHashes, and `triple` is what it then decodes to.                  *)

PollHashes(b, p, d) == [board |-> b, prompts |-> p, documents |-> d]
Json(t) == [decodes |-> TRUE, triple |-> t]
BadJson == [decodes |-> FALSE, triple |-> PollHashes("", "", "")]

EventLine(name) == [k |-> "event", name |-> name, json |-> BadJson]
DataLine(payload) == [k |-> "data", name |-> "", json |-> payload]
CommentLine == [k |-> "comment", name |-> "", json |-> BadJson]

\* serde_json::from_str::<PollHashes>(json_str).ok()
from_str(json) == IF json.decodes THEN Some(json.triple) ELSE None

\* poll.rs parse_sse_message, the loop over the lines (lines 147-154)
RECURSIVE scan_lines(_, _, _)
scan_lines(lines, event_type, data) ==
    IF lines = <<>>
    THEN [event_type |-> event_type, data |-> data]
    ELSE LET line == Head(lines)
         IN  IF line.k = "event"
             THEN scan_lines(Tail(lines), Some(line.name), data)
             ELSE IF line.k = "data"
                  THEN scan_lines(Tail(lines), event_type, Some(line.json))
                  ELSE scan_lines(Tail(lines), event_type, data)

\* Mutant of parse_sse_message: the event name is not looked at
parse_sse_message_any_event(message) ==
    LET s == scan_lines(message, None, None)
    IN  IF IsSome(s.data) THEN from_str(Unwrap(s.data)) ELSE None

\* poll.rs parse_sse_message
parse_sse_message(message) ==
    LET s == scan_lines(message, None, None)
    IN  IF /\ IsSome(s.event_type)
           /\ Unwrap(s.event_type) \in {"init", "changed"}
           /\ IsSome(s.data)
        THEN from_str(Unwrap(s.data))
        ELSE None

\* Blocks as the server writes them
Block(name, t) == <<EventLine(name), DataLine(Json(t))>>

\* The sample triples: one, the three that differ from it in one field (and
\* from each other in two), and one that differs from it in all three
Triples ==
    {PollHashes("h1", "p1", "d1"), PollHashes("h2", "p1", "d1"),
     PollHashes("h1", "p2", "d1"), PollHashes("h1", "p1", "d2"),
     PollHashes("h2", "p2", "d2")}

\* Sample blocks: every triple as `changed` and as `init`, and blocks that are
\* not meaningful
Blocks ==
    {Block(name, t) : name \in {"init", "changed"}, t \in Triples} \cup
    {<<CommentLine>>,
     Block("ping", PollHashes("h2", "p2", "d2")),
     <<DataLine(Json(PollHashes("h2", "p2", "d2")))>>,
     <<EventLine("changed")>>,
     <<EventLine("changed"), DataLine(BadJson)>>,
     <<CommentLine, EventLine("changed"),
       DataLine(Json(PollHashes("h2", "p1", "d1")))>>}


-----------------------------------------------------------------------------
(* History of the engine, kept beside the program's state:                  *)
(*   down       the stream is not open after a failed initial sync, a failed*)
(*              open or the end of a stream                                 *)
(*   lost       ConnectionLost messages sent since the stream was last open *)
(*   healed     the current open followed a ConnectionLost                  *)
(*   restored   ConnectionRestored messages sent at the current open        *)
(*   follow     the kind of the first message sent after the last           *)
(*              ConnectionRestored ("pending" until there is one)           *)
(*   init_ok    whether each of the six initial fetches succeeded           *)
(*   init_sent  the messages the initial sync sent                          *)
(*   fetched    the categories fetched in the current diff round            *)
(*   sent       the messages sent in the current diff round                 *)
(*   failed     the categories whose fetch failed in the current diff round *)
(*   owed       the categories whose fetch failed in the last diff round of *)
(*              this stream that found a difference                         *)
(*   opened     the stream was opened at least once                         *)
(*   ignored    the block read last was not parsed to a triple              *)

LogNew ==
    [down |-> FALSE, lost |-> 0, healed |-> FALSE, restored |-> 0,
     follow |-> "none", init_ok |-> None, init_sent |-> <<>>,
     fetched |-> {}, sent |-> <<>>, failed |-> {}, owed |-> {},
     opened |-> FALSE, ignored |-> FALSE]

Kinds(msgs) == [i \in 1..Len(msgs) |-> msgs[i].kind]
Count(msgs, kind) == Cardinality({i \in 1..Len(msgs) : msgs[i].kind = kind})

\* A sent message as the history keeps it: its kind, and the triple it carries
Tag(m) == IF m.kind = "HashesChanged" THEN m ELSE [kind |-> m.kind]

RECURSIVE Follow(_, _)
Follow(f, msgs) ==
    IF msgs = <<>> THEN f
    ELSE Follow(IF Head(msgs).kind = "ConnectionRestored" THEN "pending"
                ELSE IF f = "pending" THEN Head(msgs).kind ELSE f,
                Tail(msgs))

\* The history after `msgs` were sent
Emitted(l, msgs) ==
    [l EXCEPT !.lost = @ + Count(msgs, "ConnectionLost"),
              !.restored = @ + Count(msgs, "ConnectionRestored"),
              !.follow = Follow(@, msgs)]

\* The history after `msgs` were sent in a diff round that fetched `cats`
EmittedInRound(l, msgs, cats) ==
    [Emitted(l, msgs) EXCEPT !.fetched = @ \cup cats,
                             !.sent = @ \o [i \in 1..Len(msgs) |-> Tag(msgs[i])]]

-----------------------------------------------------------------------------
(* poll.rs: the task spawned by spawn_poller.  Its positions:               *)
(*   initial_fetch  awaiting fetch_all (line 33)                            *)
(*   connect        awaiting the response of the events request (72-76)     *)
(*   resync         awaiting fetch_all after ConnectionRestored (line 86)   *)
(*   read           awaiting stream.next() (line 95)                        *)
(*   diff_board, diff_prompts, diff_documents, diff_activity, diff_end      *)
(*                  the comparisons of one parsed triple (lines 106-133)    *)
(*   backoff        awaiting the sleep (line 61)                            *)

StreamIsOpen ==
    pc \in {"resync", "read", "diff_board", "diff_prompts", "diff_documents",
            "diff_activity", "diff_end"}

\* tx.send: the channel is unbounded; the model lets the engine wait for room
Send(msgs) ==
    /\ Len(chan) + Len(msgs) <= MaxChan
    /\ chan' = chan \o msgs

\* poll.rs spawn_poller lines 33-41: what the initial sync sends
initial_messages(res) ==
    IF IsOk(res) THEN <<Unwrap(res)>> ELSE <<Error, ConnectionLost>>

\* poll.rs spawn_poller lines 55-58: what is sent when connect_sse returned
lost_messages(wc) == IF wc THEN <<ConnectionLost>> ELSE <<>>

\* Mutant of restored_messages: every open of the stream is announced
restored_messages_always(wc) == <<ConnectionRestored>>

\* poll.rs connect_sse lines 82-84: what is sent when the stream opened
restored_messages(wc) == IF ~wc THEN <<ConnectionRestored>> ELSE <<>>

\* poll.rs connect_sse lines 86-88: what the resync on reconnect sends
resync_messages(res) == IF IsOk(res) THEN <<Unwrap(res)>> ELSE <<>>

\* poll.rs spawn_poller lines 33-43
InitialFetch(W) ==
    /\ pc = "initial_fetch"
    /\ \E r \in FetchAllOutcomes(W) :
          LET msgs == initial_messages(fetch_all(r))
              ok == \A f \in DOMAIN r : IsOk(r[f])
          IN  /\ Send(msgs)
              /\ log' = [Emitted(log, msgs) EXCEPT
                            !.init_ok = Some(ok),
                            !.init_sent = msgs,
                            !.down = ~ok]
    /\ was_connected' = TRUE
    /\ pc' = "connect"
    /\ UNCHANGED <<uiVars, last_hashes, hashes, changed, envVars>>

\* poll.rs connect_sse lines 72-93, the request succeeded; `first` is what
\* the server writes to a stream it opens
ConnectOk(first) ==
    /\ pc = "connect"
    /\ LET msgs == restored_messages(was_connected)
       IN  /\ Send(msgs)
           /\ log' = Emitted([log EXCEPT !.down = FALSE,
                                         !.healed = log.lost > 0,
                                         !.lost = 0,
                                         !.restored = 0,
                                         !.follow = "none",
                                         !.owed = {},
                                         !.opened = TRUE,
                                         !.ignored = FALSE], msgs)
    /\ pc' = IF ~was_connected THEN "resync" ELSE "read"
    /\ was_connected' = TRUE
    /\ last_hashes' = None
    /\ stream' = first
    /\ UNCHANGED <<uiVars, hashes, changed, srv>>

\* poll.rs connect_sse lines 72-80 failing, then spawn_poller lines 55-58
ConnectFail ==
    /\ pc = "connect"
    /\ LET msgs == lost_messages(was_connected)
       IN  /\ Send(msgs)
           /\ log' = Emitted([log EXCEPT !.down = TRUE], msgs)
    /\ was_connected' = FALSE
    /\ pc' = "backoff"
    /\ UNCHANGED <<uiVars, last_hashes, hashes, changed, envVars>>

\* A poller that gives up: its loop is left after the sleep
Backoff_gives_up ==
    /\ pc = "backoff"
    /\ pc' = "stopped"
    /\ UNCHANGED <<uiVars, chan, was_connected, last_hashes, hashes, changed,
                   envVars, log>>

\* poll.rs spawn_poller line 61
Backoff ==
    /\ pc = "backoff"
    /\ pc' = "connect"
    /\ UNCHANGED <<uiVars, chan, was_connected, last_hashes, hashes, changed,
                   envVars, log>>

\* poll.rs connect_sse lines 86-88
Resync(W) ==
    /\ pc = "resync"
    /\ \E r \in FetchAllOutcomes(W) :
          LET msgs == resync_messages(fetch_all(r))
          IN  /\ Send(msgs)
              /\ log' = Emitted(log, msgs)
    /\ pc' = "read"
    /\ UNCHANGED <<uiVars, was_connected, last_hashes, hashes, changed,
                   envVars>>

\* Mutant of after_parse: the first triple of a stream is passed over
after_parse_skips_first(parsed, last) ==
    IF parsed = None \/ last = None THEN "read" ELSE "diff_board"

\* poll.rs connect_sse lines 104-106 and 133: where a parsed block leads
after_parse(parsed, last) ==
    IF parsed = None THEN "read"
    ELSE IF last = None THEN "record"
    ELSE "diff_board"

\* poll.rs connect_sse lines 95-106 and 133: one block is read and parsed
ReadBlock(message) ==
    /\ pc = "read"
    /\ LET parsed == parse_sse_message(message)
           to == after_parse(parsed, last_hashes)
       IN  /\ pc' = IF to = "record" THEN "read" ELSE to
           /\ last_hashes' = IF to = "record" THEN parsed ELSE last_hashes
           /\ hashes' = IF to = "diff_board" THEN parsed ELSE None
    /\ changed' = FALSE
    /\ log' = [log EXCEPT !.fetched = {}, !.sent = <<>>, !.failed = {},
                          !.ignored = (parse_sse_message(message) = None)]
    /\ UNCHANGED <<uiVars, chan, was_connected, srv>>

\* Mutant of differs: the documents hash is never compared
differs_ignores_documents(last, h, cat) ==
    cat # "documents" /\ last[cat] # h[cat]

\* Mutant of differs: the board always counts as changed
differs_board_always(last, h, cat) == cat = "board" \/ last[cat] # h[cat]

\* poll.rs connect_sse lines 108, 114, 120: the comparison of one field
differs(last, h, cat) == last[cat] # h[cat]

\* poll.rs connect_sse lines 111, 117, 123: the message that carries what was
\* fetched for a category
Updated(cat, x) ==
    CASE cat = "board" -> BoardUpdated(x)
      [] cat = "prompts" -> PromptsUpdated(x)
      [] cat = "documents" -> DocumentsUpdated(x)

\* poll.rs connect_sse lines 108-125: one of the three comparisons, with its
\* fetch
DiffStage(W, cat, at, to) ==
    /\ pc = at
    /\ IF differs(Unwrap(last_hashes), Unwrap(hashes), cat)
       THEN /\ changed' = TRUE
            /\ \E res \in FetchOutcomes(W, cat) :
                  LET msgs == IF IsOk(res)
                              THEN <<Updated(cat, Unwrap(res))>>
                              ELSE <<>>
                  IN  /\ Send(msgs)
                      /\ log' = [EmittedInRound(log, msgs, {cat}) EXCEPT
                                    !.failed = IF IsOk(res) THEN @
                                               ELSE @ \cup {cat}]
       ELSE UNCHANGED <<changed, chan, log>>
    /\ pc' = to
    /\ UNCHANGED <<uiVars, was_connected, last_hashes, hashes, envVars>>

DiffBoard(W) ==
    DiffStage(W, "board", "diff_board", "diff_prompts")
DiffPrompts(W) ==
    DiffStage(W, "prompts", "diff_prompts", "diff_documents")
DiffDocuments(W) ==
    DiffStage(W, "documents", "diff_documents", "diff_activity")

\* Mutant of DiffActivity: HashesChanged is sent before ActivityUpdated
DiffActivity_hashes_first(W) ==
    /\ pc = "diff_activity"
    /\ IF changed
       THEN \E res \in FetchOutcomes(W, "activity") :
               LET msgs == <<HashesChanged(Unwrap(hashes))>> \o
                           (IF IsOk(res)
                            THEN <<ActivityUpdated(Unwrap(res))>>
                            ELSE <<>>)
               IN  /\ Send(msgs)
                   /\ log' = [EmittedInRound(log, msgs, {"activity"}) EXCEPT
                                 !.failed = IF IsOk(res) THEN @
                                            ELSE @ \cup {"activity"}]
       ELSE UNCHANGED <<chan, log>>
    /\ pc' = "diff_end"
    /\ UNCHANGED <<uiVars, was_connected, last_hashes, hashes, changed,
                   envVars>>

\* poll.rs connect_sse lines 126-131
DiffActivity(W) ==
    /\ pc = "diff_activity"
    /\ IF changed
       THEN \E res \in FetchOutcomes(W, "activity") :
               LET msgs == (IF IsOk(res)
                            THEN <<ActivityUpdated(Unwrap(res))>>
                            ELSE <<>>) \o <<HashesChanged(Unwrap(hashes))>>
               IN  /\ Send(msgs)
                   /\ log' = [EmittedInRound(log, msgs, {"activity"}) EXCEPT
                                 !.failed = IF IsOk(res) THEN @
                                            ELSE @ \cup {"activity"}]
       ELSE UNCHANGED <<chan, log>>
    /\ pc' = "diff_end"
    /\ UNCHANGED <<uiVars, was_connected, last_hashes, hashes, changed,
                   envVars>>

\* poll.rs connect_sse line 133, after a comparison
DiffEnd ==
    /\ pc = "diff_end"
    /\ last_hashes' = hashes
    /\ hashes' = None
    /\ changed' = FALSE
    /\ pc' = "read"
    /\ log' = [log EXCEPT !.fetched = {}, !.sent = <<>>, !.failed = {},
                          !.owed = IF changed THEN log.failed ELSE @]
    /\ UNCHANGED <<uiVars, chan, was_connected, envVars>>

\* poll.rs connect_sse lines 95-96 and 139: the stream ended or broke; then
\* spawn_poller lines 55-58
StreamEnd ==
    /\ pc = "read"
    /\ LET msgs == lost_messages(was_connected)
       IN  /\ Send(msgs)
           /\ log' = Emitted([log EXCEPT !.down = TRUE], msgs)
    /\ was_connected' = FALSE
    /\ pc' = "backoff"
    /\ stream' = <<>>
    /\ last_hashes' = None        \* connect_sse returned: its locals are gone
    /\ UNCHANGED <<uiVars, hashes, changed, srv>>


-----------------------------------------------------------------------------
(* main.rs run_app: the UI loop.  Its positions:                            *)
(*   select   in tokio::select! (line 92)                                   *)
(*   drain    the sleep won: in the loop over the pending keys (95-99)      *)
(*   done     returned (line 110)                                           *)

\* The category the view's list is fetched from
category(view) ==
    CASE view = "Board" -> "board"
      [] view = "Prompts" -> "prompts"
      [] view = "Documents" -> "documents"
      [] view = "Activity" -> "activity"

\* What the select action of the view would open, if anything
selected_item(a) ==
    CASE a.view = "Board" -> selected_task(a)
      [] a.view = "Prompts" ->
            IF a.prompt_index < Len(a.prompts)
            THEN Some(a.prompts[a.prompt_index + 1]) ELSE None
      [] a.view = "Documents" ->
            IF a.document_index < Len(a.documents)
            THEN Some(a.documents[a.document_index + 1]) ELSE None
      [] a.view = "Activity" ->
            IF a.activity_index < Len(a.activity)
            THEN Some(a.activity[a.activity_index + 1]) ELSE None

\* api.rs get_task / get_prompt / get_document: the answer for an item
detail_of(a, item) ==
    CASE a.view = "Board" -> [item EXCEPT !.from = "task"]
      [] a.view \in {"Prompts", "Documents"} -> [item EXCEPT !.from = "detail"]
      [] a.view = "Activity" ->
            IF item.entry_type = "task"
            THEN [Task(1, Unwrap(item.ref)) EXCEPT !.from = "task"]
            ELSE [Resource(Unwrap(item.ref)) EXCEPT !.from = "detail"]

\* api.rs get_comments / list_prompt_revisions / list_document_revisions
sub_lengths(a, item, W) ==
    IF \/ a.view = "Board"
       \/ a.view = "Activity" /\ item.entry_type = "task"
    THEN W.comments ELSE W.revs

NoAnswer == [fetch |-> Err, detail |-> Err, sub |-> Err]

\* The answers of the remote to the fetches handle_key makes for `key`
ApiOutcomes(a, key, W) ==
    IF key = "Ctrl+c" \/ IsSome(a.overlay) THEN {NoAnswer}
    ELSE IF key = "r"
    THEN {[NoAnswer EXCEPT !.fetch = f] :
            f \in FetchOutcomes(W, category(a.view))}
    ELSE IF /\ key \in {"Enter", "Space"}
            /\ a.focus = "Content"
            /\ IsSome(selected_item(a))
    THEN LET item == Unwrap(selected_item(a))
         IN  {[fetch |-> Err, detail |-> d, sub |-> sb] :
                d \in Results({detail_of(a, item)}, W.fail),
                sb \in Results({ItemList(n) : n \in sub_lengths(a, item, W)},
                               W.fail)}
    ELSE {NoAnswer}

scroll_of(a) == IF IsSome(a.overlay) THEN Unwrap(a.overlay).scroll ELSE 0

\* main.rs run_app lines 109-111
after_apply(a) == IF a.should_quit THEN "done" ELSE "select"

\* main.rs run_app line 94: the sleep completes first
UiTick ==
    /\ ui_pc = "select"
    /\ ui_pc' = "drain"
    /\ UNCHANGED <<app, lastKey, lastAnswer, chan, engineVars, envVars, log>>

\* main.rs run_app lines 95-98: one pending key is read and handled, the
\* remote answering its fetches; the scroll offset stays within `cap`
UiKeyUpTo(K, W, cap) ==
    /\ ui_pc = "drain"
    /\ \E key \in K :
          \E r \in ApiOutcomes(app, key, W) :
              /\ app' = handle_key(app, key, r)
              /\ lastKey' = key
              /\ lastAnswer' = r
    /\ scroll_of(app') <= cap
    /\ UNCHANGED <<ui_pc, chan, engineVars, envVars, log>>

UiKey(K, W) == UiKeyUpTo(K, W, MaxScroll)

\* main.rs run_app lines 95 and 109-111: no key is pending any more
UiDrained ==
    /\ ui_pc = "drain"
    /\ ui_pc' = after_apply(app)
    /\ UNCHANGED <<app, lastKey, lastAnswer, chan, engineVars, envVars, log>>

\* main.rs run_app lines 102-111, for the message received
UiApply(msg) ==
    /\ app' = handle_poll_message(app, msg)
    /\ UNCHANGED <<lastKey, lastAnswer>>
    /\ ui_pc' = after_apply(app')

\* Mutant of UiRecv: the message sent last is received first
UiRecv_newest_first ==
    /\ ui_pc = "select"
    /\ chan # <<>>
    /\ UiApply(chan[Len(chan)])
    /\ chan' = SubSeq(chan, 1, Len(chan) - 1)
    /\ UNCHANGED <<engineVars, envVars, log>>

\* main.rs run_app lines 102-111: rx.recv() completes first
UiRecv ==
    /\ ui_pc = "select"
    /\ chan # <<>>
    /\ UiApply(Head(chan))
    /\ chan' = Tail(chan)
    /\ UNCHANGED <<engineVars, envVars, log>>

\* The same, for any message of M in place of the channel's next one
UiRecvOf(M) ==
    /\ ui_pc = "select"
    /\ \E msg \in M : UiApply(msg)
    /\ UNCHANGED <<chan, engineVars, envVars, log>>

\* Every poll message over the contents of a world
Messages(W) ==
    {InitialData(TheVersion, b, TheConfig, p, d, a) :
        b \in W.board, p \in W.prompts, d \in W.documents,
        a \in W.activity} \cup
    {BoardUpdated(b) : b \in W.board} \cup
    {PromptsUpdated(l) : l \in W.prompts} \cup
    {DocumentsUpdated(l) : l \in W.documents} \cup
    {ActivityUpdated(l) : l \in W.activity} \cup
    {HashesChanged(t) : t \in Triples} \cup
    {ConnectionLost, ConnectionRestored, Error}

-----------------------------------------------------------------------------
(* Worlds *)

\* Any content within the bounds; fetches may fail
AnyWorld ==
    [board |-> Boards, prompts |-> ResourceLists, documents |-> ResourceLists,
     activity |-> ActivityLists, revs |-> 0..MaxRevs,
     comments |-> 0..MaxComments, fail |-> TRUE]

\* One content per category; fetches may fail
FixedWorld ==
    [board |-> {<<>>}, prompts |-> {<<>>}, documents |-> {<<>>},
     activity |-> {<<>>}, revs |-> {0}, comments |-> {0}, fail |-> TRUE]

-----------------------------------------------------------------------------
(* Initial state: App::new(), an empty channel, the poller just spawned *)

SrvNew ==
    [board |-> <<>>, prompts |-> <<>>, documents |-> <<>>, activity |-> <<>>,
     changes |-> 0]

Init ==
    /\ app = AppNew
    /\ ui_pc = "select"
    /\ lastKey = ""
    /\ lastAnswer = NoAnswer
    /\ chan = <<>>
    /\ pc = "initial_fetch"
    /\ was_connected = TRUE
    /\ last_hashes = None
    /\ hashes = None
    /\ changed = FALSE
    /\ stream = <<>>
    /\ srv = SrvNew
    /\ log = LogNew

-----------------------------------------------------------------------------
(* The sync engine against any remote: any sample block may arrive while    *)
(* the stream is open, any fetch may fail; the UI loop receives.            *)

ReadAny == \E message \in Blocks : ReadBlock(message) /\ UNCHANGED stream

NextSync ==
    \/ InitialFetch(FixedWorld)
    \/ ConnectOk(<<>>)
    \/ ConnectFail
    \/ Backoff
    \/ Resync(FixedWorld)
    \/ ReadAny
    \/ DiffBoard(FixedWorld)
    \/ DiffPrompts(FixedWorld)
    \/ DiffDocuments(FixedWorld)
    \/ DiffActivity(FixedWorld)
    \/ DiffEnd
    \/ StreamEnd
    \/ UiRecv

SpecSync == Init /\ [][NextSync]_vars


-----------------------------------------------------------------------------
(* The sync engine against a remote that works: every fetch succeeds and    *)
(* answers with the remote's content, the stream opens and stays open, the  *)
(* server writes `init` with its triple to a stream it opens and `changed`  *)
(* with its new triple when its content changes.                            *)

\* The contents the remote takes
Served ==
    [board |-> {<<>>, <<Column(1, 1)>>},
     prompts |-> {<<>>, <<Resource(1)>>},
     documents |-> {<<>>, <<Resource(1)>>},
     activity |-> {<<>>, <<ActivityEntry(1)>>}]

\* The fingerprint the server computes of a content
Hash(x) == <<"#", x>>

\* The triple the server reports
ServerTriple(sv) ==
    PollHashes(Hash(sv.board), Hash(sv.prompts), Hash(sv.documents))

\* The remote as it is now; its fetches succeed
SrvWorld ==
    [board |-> {srv.board}, prompts |-> {srv.prompts},
     documents |-> {srv.documents}, activity |-> {srv.activity},
     revs |-> {0}, comments |-> {0}, fail |-> FALSE]

\* The content of one category changes, and with it the activity feed
SrvChange ==
    /\ srv.changes < MaxChanges
    /\ StreamIsOpen => Len(stream) < MaxStream
    /\ \E cat \in {"board", "prompts", "documents"} :
          \E c \in Served[cat] \ {srv[cat]} :
              \E act \in Served.activity \ {srv.activity} :
                  srv' = [srv EXCEPT ![cat] = c, !.activity = act,
                                     !.changes = @ + 1]
    /\ stream' = IF StreamIsOpen
                 THEN Append(stream, Block("changed", ServerTriple(srv')))
                 ELSE stream
    /\ UNCHANGED <<uiVars, chan, engineVars, log>>

ConnectToServer == ConnectOk(<<Block("init", ServerTriple(srv))>>)

ReadNext ==
    /\ stream # <<>>
    /\ ReadBlock(Head(stream))
    /\ stream' = Tail(stream)

NextStable ==
    \/ InitialFetch(SrvWorld)
    \/ ConnectToServer
    \/ ReadNext
    \/ DiffBoard(SrvWorld)
    \/ DiffPrompts(SrvWorld)
    \/ DiffDocuments(SrvWorld)
    \/ DiffActivity(SrvWorld)
    \/ DiffEnd
    \/ SrvChange
    \/ UiRecv

SpecStable == Init /\ [][NextStable]_vars

\* Nothing is left to do: the engine waits for the next block, no block and
\* no message is under way
Quiescent == pc = "read" /\ stream = <<>> /\ chan = <<>>

\* AppState holds the remote's current content
Mirrors ==
    /\ app.board = Some(srv.board)
    /\ app.prompts = srv.prompts
    /\ app.documents = srv.documents
    /\ app.activity = srv.activity

\* C6: once the engine has nothing left to do, with the stream open and every
\* fetch so far successful, AppState holds the remote's current board,
\* prompts, documents and activity (so it does when the remote stops changing).
C6_EventuallyConsistent == Quiescent => Mirrors

-----------------------------------------------------------------------------
(* Claims about the sync engine, under SpecSync *)

\* C2: while the stream is not open after a failed initial sync, a failed
\* open or the end of a stream, exactly one ConnectionLost has been sent since
\* it was last open, however many opens failed.
C2_OneLostPerOutage == log.down => log.lost = 1

\* C3: an open stream that followed a ConnectionLost has sent exactly one
\* ConnectionRestored, and the first message sent after a ConnectionRestored
\* is an InitialData.
C3_RestoredThenResync ==
    /\ (StreamIsOpen /\ log.healed) => log.restored = 1
    /\ log.follow \in {"none", "pending", "InitialData"}

\* The categories in which two triples differ
Differing(last, h) ==
    {cat \in {"board", "prompts", "documents"} : last[cat] # h[cat]}

\* C4: when the comparisons of a received triple that differs from the
\* last-seen one are done, the categories fetched are those whose hash
\* differs, and activity; one HashesChanged was sent, last, with the received
\* triple.
C4_SelectiveRefetch ==
    (pc = "diff_end" /\ hashes # last_hashes) =>
        /\ log.fetched =
              Differing(Unwrap(last_hashes), Unwrap(hashes)) \cup {"activity"}
        /\ Count(log.sent, "HashesChanged") = 1
        /\ log.sent[Len(log.sent)] = HashesChanged(Unwrap(hashes))

\* C4, its example: last-seen {h1,p1,d1}, received {h2,p1,d1}
C4_Witness ==
    /\ pc = "diff_end"
    /\ last_hashes = Some(PollHashes("h1", "p1", "d1"))
    /\ hashes = Some(PollHashes("h2", "p1", "d1"))
    /\ log.fetched = {"board", "activity"}

\* C5: a received triple equal to the last-seen one causes no fetch and no
\* message, through all its comparisons.
C5_IdenticalIsNoOp ==
    (/\ pc \in {"diff_board", "diff_prompts", "diff_documents",
                "diff_activity", "diff_end"}
     /\ hashes = last_hashes) =>
        /\ log.fetched = {}
        /\ log.sent = <<>>
        /\ ~changed

C5_Witness == pc = "diff_end" /\ hashes = last_hashes

\* C7: the initial sync sent one InitialData with all six categories when all
\* six fetches succeeded, and otherwise Error directly followed by
\* ConnectionLost, and no InitialData.
C7_InitialSync ==
    IsSome(log.init_ok) =>
        IF Unwrap(log.init_ok)
        THEN /\ Kinds(log.init_sent) = <<"InitialData">>
             /\ DOMAIN log.init_sent[1] =
                   {"kind", "version", "board", "config", "prompts",
                    "documents", "activity"}
        ELSE Kinds(log.init_sent) = <<"Error", "ConnectionLost">>

C7_Witness ==
    /\ log.init_ok = Some(FALSE)
    /\ Kinds(log.init_sent) = <<"Error", "ConnectionLost">>
    /\ pc = "connect"


-----------------------------------------------------------------------------
(* The UI loop on the board and the prompts of any content: the navigation  *)
(* keys, and any message that replaces a collection.                        *)

NavKeys == {"1", "2", "3", "4", "r", "h", "l", "j", "k", "g", "G", "Tab"}

\* Any board and any prompts; the documents and the activity feed stay empty
NavWorld == [AnyWorld EXCEPT !.documents = {<<>>}, !.activity = {<<>>}]

NavMessages ==
    {m \in Messages(NavWorld) :
        m.kind \in {"InitialData", "BoardUpdated", "PromptsUpdated",
                    "DocumentsUpdated", "ActivityUpdated"}}

NextNav ==
    \/ UiTick
    \/ UiKey(NavKeys, NavWorld)
    \/ UiDrained
    \/ UiRecvOf(NavMessages)

SpecNav == Init /\ [][NextNav]_vars

\* An index into a collection of `len` entries is in range
InRange(idx, len) == IF len = 0 THEN idx = 0 ELSE idx < len

\* The remembered row of column c (1-based) of the board
RowOf(a, c) == IF c <= Len(a.board_row) THEN a.board_row[c] ELSE 0

\* C1: every navigation index is in range: below the length of its
\* collection, and 0 when the collection is empty.
C1_IndicesInRange ==
    /\ InRange(app.prompt_index, Len(app.prompts))
    /\ InRange(app.document_index, Len(app.documents))
    /\ InRange(app.activity_index, Len(app.activity))
    /\ InRange(app.board_col, column_count(app))
    /\ \A c \in 1..column_count(app) :
          InRange(RowOf(app, c), Len(Unwrap(app.board)[c]))


-----------------------------------------------------------------------------
(* The UI loop with the detail overlays: lists of one prompt and one        *)
(* document and an activity feed with an entry of each type are loaded; the *)
(* overlays are opened from the lists and from the feed, with any number of *)
(* revisions up to MaxRevs, and the revision keys are pressed.              *)

OverlayWorld ==
    [board |-> {<<>>}, prompts |-> {<<Resource(1)>>},
     documents |-> {<<Resource(1)>>},
     activity |-> {[i \in 1..Len(EntryTypes) |-> ActivityEntry(i)]},
     revs |-> 0..MaxRevs, comments |-> 0..MaxComments, fail |-> TRUE]

OverlayKeys == {"2", "3", "4", "j", "Enter", "[", "]", "Esc"}

OverlayMessages == {m \in Messages(OverlayWorld) : m.kind = "InitialData"}

NextOverlay ==
    \/ UiTick
    \/ UiKey(OverlayKeys, OverlayWorld)
    \/ UiDrained
    \/ UiRecvOf(OverlayMessages)

SpecOverlay == Init /\ [][NextOverlay]_vars

\* The step is handle_key handling `key`
KeyHandled(key) ==
    /\ ui_pc = "drain"
    /\ ui_pc' = "drain"
    /\ lastKey' = key
    /\ UNCHANGED <<chan, engineVars, envVars, log>>

\* A ResourceDetail overlay with at least one revision is open in `a`
RevisionsOpen(a) ==
    /\ IsSome(a.overlay)
    /\ Unwrap(a.overlay).tag = "ResourceDetail"
    /\ Unwrap(a.overlay).revisions # <<>>

\* The revision cursor and the number of revisions of the open overlay
Cursor(a) == Unwrap(a.overlay).current_rev
NRevs(a) == Len(Unwrap(a.overlay).revisions)

\* C8, as claimed: an "older" step at cursor Some(0) leaves the cursor at
\* Some(0).
C8_OlderAtOldestStays ==
    [][(KeyHandled("[") /\ RevisionsOpen(app) /\ Cursor(app) = Some(0))
          => Cursor(app') = Some(0)]_vars

\* C8, amended: an "older" step at cursor Some(0) returns the cursor to None,
\* the current version.
C8_OlderAtOldestReturnsToCurrent ==
    [][(KeyHandled("[") /\ RevisionsOpen(app) /\ Cursor(app) = Some(0))
          => Cursor(app') = None]_vars

\* "[" was handled on an overlay of three revisions and the cursor is None:
\* the step was taken at Some(0), since from None it yields Some(2)
C8_Witness ==
    /\ lastKey = "["
    /\ RevisionsOpen(app)
    /\ NRevs(app) = 3
    /\ Cursor(app) = None

\* C9: with n >= 1 revisions, "older" from None yields Some(n-1), "newer"
\* from None leaves None, "newer" from Some(i) yields Some(i+1) when i+1 < n
\* and None when i = n-1.
C9_CursorSteps ==
    [][RevisionsOpen(app) =>
          /\ (KeyHandled("[") /\ Cursor(app) = None)
                => Cursor(app') = Some(NRevs(app) - 1)
          /\ (KeyHandled("]") /\ Cursor(app) = None)
                => Cursor(app') = None
          /\ (KeyHandled("]") /\ Cursor(app) # None)
                => Cursor(app') =
                      IF Unwrap(Cursor(app)) + 1 < NRevs(app)
                      THEN Some(Unwrap(Cursor(app)) + 1)
                      ELSE None]_vars

\* "]" was handled on an overlay of three revisions and the cursor is Some(2):
\* the step was taken at Some(1)
C9_Witness ==
    /\ lastKey = "]"
    /\ RevisionsOpen(app)
    /\ NRevs(app) = 3
    /\ Cursor(app) = Some(2)

\* C10: the revision cursor of an open ResourceDetail overlay is None or an
\* index into its revisions; it is None when there are no revisions.
C10_CursorInBounds ==
    (IsSome(app.overlay) /\ Unwrap(app.overlay).tag = "ResourceDetail") =>
        \/ Cursor(app) = None
        \/ Unwrap(Cursor(app)) \in 0..(NRevs(app) - 1)

\* The cursor is on the newest of three revisions
C10_Witness == RevisionsOpen(app) /\ NRevs(app) = 3 /\ Cursor(app) = Some(2)

-----------------------------------------------------------------------------
(* The UI loop on the board: any board within the bounds is loaded and      *)
(* replaced, and the keys that move on the board are pressed.               *)

BoardWorld ==
    [board |-> Boards, prompts |-> {<<>>}, documents |-> {<<>>},
     activity |-> {<<>>}, revs |-> {0}, comments |-> 0..MaxComments,
     fail |-> TRUE]

BoardKeys == {"Left", "Right", "Down", "Up"}

BoardMessages == {m \in Messages(BoardWorld) : m.kind = "InitialData"}

NextBoard ==
    \/ UiTick
    \/ UiKey(BoardKeys, BoardWorld)
    \/ UiDrained
    \/ UiRecvOf(BoardMessages)

SpecBoard == Init /\ [][NextBoard]_vars

\* The key goes to the handler of view `view`: no overlay, focus on the content
InContent(a, view) ==
    a.view = view /\ a.overlay = None /\ a.focus = "Content"

\* C11: on the Board view with content focus and at least one column, Down on
\* the last row of the active column changes nothing; Left and Right move
\* board_col by one, stopping at the first and the last column; they leave
\* every column's remembered row as it was, and the row then current is the
\* one remembered for the column moved to.
C11_BoardMoves ==
    [][(InContent(app, "Board") /\ column_count(app) > 0) =>
          /\ (/\ KeyHandled("Down")
              /\ current_board_row(app) + 1 = Len(current_column_tasks(app)))
                => app' = app
          /\ KeyHandled("Left") =>
                app'.board_col = Max(app.board_col - 1, 0)
          /\ KeyHandled("Right") =>
                app'.board_col = Min(app.board_col + 1, column_count(app) - 1)
          /\ (KeyHandled("Left") \/ KeyHandled("Right")) =>
                /\ app'.board_col < column_count(app')
                /\ app'.board_row = app.board_row
                /\ current_board_row(app') = RowOf(app, app'.board_col + 1)]_vars

\* Right was handled and came back to the second column, whose remembered
\* row is 1 while the first column's is 0
C11_Witness ==
    /\ lastKey = "Right"
    /\ InContent(app, "Board")
    /\ app.board_col = 1
    /\ current_board_row(app) = 1
    /\ RowOf(app, 1) = 0

-----------------------------------------------------------------------------
(* The UI loop with every key: a board of two columns (one of them empty)   *)
(* or of none, two prompts, no documents and an activity feed of a task and *)
(* a prompt entry are loaded; every key handle_key tells apart is pressed,  *)
(* in every view, with either focus, with and without an overlay; the       *)
(* fetches a key makes succeed or fail.                                     *)

KeysWorld ==
    [board |-> {<<>>, <<Column(1, 2), Column(2, 0)>>},
     prompts |-> {<<Resource(1), Resource(2)>>},
     documents |-> {<<>>},
     activity |-> {<<ActivityEntry(1), ActivityEntry(2)>>},
     revs |-> {0, 1}, comments |-> {0, 1}, fail |-> TRUE]

KeysMessages == {m \in Messages(KeysWorld) : m.kind = "InitialData"}

NextKeys ==
    \/ UiTick
    \/ UiKey(Keys, KeysWorld)
    \/ UiDrained
    \/ UiRecvOf(KeysMessages)

SpecKeys == Init /\ [][NextKeys]_vars

\* The step is handle_key handling a select key
SelectHandled == KeyHandled("Enter") \/ KeyHandled("Space")

\* C12: selecting a task on the Board opens a TaskDetail overlay at scroll 0
\* and changes nothing else, whatever the fetches answer; it shows the task
\* as the board holds it when the fetch of the task failed, and no comments
\* when the fetch of the comments failed.
C12_TaskDetailOpensOnFailure ==
    [][(/\ SelectHandled
        /\ InContent(app, "Board")
        /\ IsSome(selected_task(app))) =>
          /\ IsSome(app'.overlay)
          /\ app' = [app EXCEPT !.overlay = app'.overlay]
          /\ Unwrap(app'.overlay).tag = "TaskDetail"
          /\ Unwrap(app'.overlay).scroll = 0
          /\ ~IsOk(lastAnswer'.detail) =>
                Unwrap(app'.overlay).task = Unwrap(selected_task(app))
          /\ ~IsOk(lastAnswer'.sub) =>
                Unwrap(app'.overlay).comments = <<>>]_vars

\* A task was selected, both fetches failed, and the overlay shows the
\* board's task with no comments
C12_Witness ==
    /\ lastKey = "Enter"
    /\ lastAnswer.detail = Err
    /\ lastAnswer.sub = Err
    /\ app.view = "Board"
    /\ IsSome(app.overlay)
    /\ Unwrap(app.overlay) = TaskDetail(Unwrap(selected_task(app)), <<>>, 0)


\* C13: in every view, a select key with content focus and an entry selected
\* ends with an overlay open, whatever the fetches answer.
C13_SelectOpensOverlay ==
    [][(/\ SelectHandled
        /\ app.overlay = None
        /\ app.focus = "Content"
        /\ IsSome(selected_item(app))) => IsSome(app'.overlay)]_vars

\* C14: Ctrl+C sets should_quit and changes nothing else, whatever the view,
\* the focus and the overlay.
C14_QuitAlwaysWins ==
    [][KeyHandled("Ctrl+c") => app' = [app EXCEPT !.should_quit = TRUE]]_vars

\* Ctrl+C was handled with an overlay open and the focus on the tab bar
C14_Witness ==
    /\ lastKey = "Ctrl+c"
    /\ app.should_quit
    /\ IsSome(app.overlay)
    /\ app.focus = "TabBar"

C16_CloseReturnsToContent ==
    [][(IsSome(app.overlay) /\ (KeyHandled("Esc") \/ KeyHandled("q"))) =>
          (app'.overlay = None /\ app'.focus = "Content")]_vars

\* C17: in every view, with content focus and no overlay, Up with the
\* selected index at 0 moves the focus to the tab bar and changes nothing
\* else, also when the view's collection is empty or the board has no columns
\* or is not loaded; Down with the selected index at the last entry changes
\* nothing.
C17_UpAtTopGoesToTabBar ==
    [][LET idx == CASE app.view = "Board" -> current_board_row(app)
                    [] app.view = "Prompts" -> app.prompt_index
                    [] app.view = "Documents" -> app.document_index
                    [] app.view = "Activity" -> app.activity_index
           len == CASE app.view = "Board" -> Len(current_column_tasks(app))
                    [] app.view = "Prompts" -> Len(app.prompts)
                    [] app.view = "Documents" -> Len(app.documents)
                    [] app.view = "Activity" -> Len(app.activity)
       IN  (app.overlay = None /\ app.focus = "Content") =>
              /\ ((KeyHandled("k") \/ KeyHandled("Up")) /\ idx = 0) =>
                    app' = [app EXCEPT !.focus = "TabBar"]
              /\ ((KeyHandled("j") \/ KeyHandled("Down")) /\ idx + 1 = len) =>
                    app' = app]_vars

-----------------------------------------------------------------------------
(* The UI loop with the scroll keys: a board of one task and one prompt are *)
(* loaded; a Help, a TaskDetail and a ResourceDetail overlay are opened and *)
(* scrolled by lines, by pages, to the top and to the bottom, up to the     *)
(* offset MaxOffset.                                                        *)

ScrollWorld ==
    [board |-> {<<Column(1, 1)>>}, prompts |-> {<<Resource(1)>>},
     documents |-> {<<>>}, activity |-> {<<>>},
     revs |-> {1}, comments |-> {0}, fail |-> FALSE]

ScrollKeys ==
    {"?", "2", "Enter", "Esc", "j", "k", "Space", "Ctrl+d", "Ctrl+u", "g", "G"}

ScrollMessages == {m \in Messages(ScrollWorld) : m.kind = "InitialData"}

NextScroll ==
    \/ UiTick
    \/ UiKeyUpTo(ScrollKeys, ScrollWorld, MaxOffset)
    \/ UiDrained
    \/ UiRecvOf(ScrollMessages)

SpecScroll == Init /\ [][NextScroll]_vars

\* The overlay of `a` with its scroll offset set to s
Scrolled(a, s) == [a EXCEPT !.overlay[1].scroll = s]

\* C18: the scroll offset of an overlay is never negative; a line or a page
\* down adds exactly 1 or 15, a line or a page up subtracts 1 or 15 and
\* yields 0 from an offset smaller than that; nothing else changes.
C18_ScrollNeverNegative ==
    [][IsSome(app.overlay) =>
          LET s == scroll_of(app)
          IN  /\ scroll_of(app') >= 0
              /\ KeyHandled("j") => app' = Scrolled(app, s + 1)
              /\ (KeyHandled("Space") \/ KeyHandled("Ctrl+d")) =>
                    app' = Scrolled(app, s + 15)
              /\ KeyHandled("k") =>
                    app' = Scrolled(app, IF s < 1 THEN 0 ELSE s - 1)
              /\ KeyHandled("Ctrl+u") =>
                    app' = Scrolled(app, IF s < 15 THEN 0 ELSE s - 15)]_vars

\* A page up was handled on a TaskDetail overlay and the offset is 0
C18_Witness ==
    /\ lastKey = "Ctrl+u"
    /\ IsSome(app.overlay)
    /\ Unwrap(app.overlay).tag = "TaskDetail"
    /\ scroll_of(app) = 0

\* C19: the bottom key pressed right after the bottom key leaves the scroll
\* offset where the first press put it; the top key sets the offset to 0.
C19_BottomIsAbsolute ==
    [][IsSome(app.overlay) =>
          /\ (KeyHandled("G") /\ lastKey = "G") =>
                scroll_of(app') = scroll_of(app)
          /\ KeyHandled("g") => scroll_of(app') = 0]_vars

-----------------------------------------------------------------------------
(* Claims about the revision keys and the scroll offset, under SpecOverlay *)

\* C20: a revision key that changes the revision cursor sets the scroll
\* offset to 0 and changes nothing else; a revision key changes nothing at
\* all when the overlay is not a ResourceDetail, when there are no revisions,
\* and when it is "newer" at cursor None.
C20_RevisionStepResetsScroll ==
    [][(IsSome(app.overlay) /\ (KeyHandled("[") \/ KeyHandled("]"))) =>
          IF Unwrap(app.overlay).tag # "ResourceDetail"
          THEN app' = app
          ELSE /\ IF Cursor(app') # Cursor(app)
                  THEN app' = [app EXCEPT
                                 !.overlay[1].current_rev = Cursor(app'),
                                 !.overlay[1].scroll = 0]
                  ELSE app' = app
               /\ (NRevs(app) = 0 \/ (KeyHandled("]") /\ Cursor(app) = None))
                     => app' = app]_vars

\* "[" was handled on an overlay of three revisions, the cursor is Some(1)
\* and the scroll offset 0
C20_Witness ==
    /\ lastKey = "["
    /\ RevisionsOpen(app)
    /\ NRevs(app) = 3
    /\ Cursor(app) = Some(1)
    /\ scroll_of(app) = 0



-----------------------------------------------------------------------------
(* The engine's retry loop (poll.rs spawn_poller lines 45-62)               *)

\* The engine under a scheduler that lets the 2 s sleep of line 61 complete:
\* tokio wakes the task when the timer fires
SpecSyncLive == SpecSync /\ WF_vars(Backoff)

\* C21: whenever the engine is past a stream termination or a failed open
\* (it waits in the back-off sleep), it eventually attempts to open the stream
\* again; no number of earlier failures stops it.
C21_AlwaysRetries == (pc = "backoff") ~> (pc = "connect")

\* The engine attempts to open the stream again after a stream that had been
\* open was terminated
C21_Witness == pc = "connect" /\ ~was_connected /\ log.opened

-----------------------------------------------------------------------------
(* The connection status AppState shows (main.rs handle_poll_message lines  *)
(* 131 and 157-162) against the state of the stream                         *)

\* C22: when the stream is open, the engine waits for its next block and every
\* message it sent is applied, AppState shows Connected (so it does for as
\* long as the stream stays open and silent), also when the initial sync had
\* failed before the stream opened.
C22_OpenMeansConnected ==
    (pc = "read" /\ chan = <<>>) => app.connection = "Connected"

\* C23: AppState shows Connected only when the engine has opened the stream
\* at least once.
C23_ConnectedOnlyAfterOpen == app.connection = "Connected" => log.opened

-----------------------------------------------------------------------------
(* The messages of one diff round (poll.rs connect_sse lines 106-133)       *)

\* C24 as claimed: when the comparisons of a received triple that differs
\* from the last-seen one are done, the messages sent in the round are in the
\* order BoardUpdated, PromptsUpdated, DocumentsUpdated, ActivityUpdated,
\* HashesChanged, each at most once; ActivityUpdated is among them; one
\* HashesChanged was sent, last, with the received triple.
C24_RoundOrderActivityAlways ==
    (pc = "diff_end" /\ hashes # last_hashes) =>
        LET order == <<"BoardUpdated", "PromptsUpdated", "DocumentsUpdated",
                       "ActivityUpdated", "HashesChanged">>
            kinds == Kinds(log.sent)
            In(k) == \E i \in 1..Len(kinds) : kinds[i] = k
        IN  /\ kinds = SelectSeq(order, In)
            /\ In("ActivityUpdated")
            /\ Count(log.sent, "HashesChanged") = 1
            /\ log.sent[Len(log.sent)] = HashesChanged(Unwrap(hashes))

\* C24 as the code has it: the messages sent in the round are, in the order
\* BoardUpdated, PromptsUpdated, DocumentsUpdated, ActivityUpdated,
\* HashesChanged, those of the categories whose fetch in the round succeeded
\* (ActivityUpdated when the fetch of activity succeeded, none when it
\* failed), and one HashesChanged, last, with the received triple.
C24_RoundOrder ==
    (pc = "diff_end" /\ hashes # last_hashes) =>
        LET order == <<"BoardUpdated", "PromptsUpdated", "DocumentsUpdated",
                       "ActivityUpdated", "HashesChanged">>
            cat == [BoardUpdated |-> "board", PromptsUpdated |-> "prompts",
                    DocumentsUpdated |-> "documents",
                    ActivityUpdated |-> "activity", HashesChanged |-> ""]
            Due(k) == \/ k = "HashesChanged"
                      \/ cat[k] \in log.fetched \ log.failed
        IN  /\ Kinds(log.sent) = SelectSeq(order, Due)
            /\ log.sent[Len(log.sent)] = HashesChanged(Unwrap(hashes))

\* A round in which all five messages were sent
C24_Witness ==
    /\ pc = "diff_end"
    /\ Kinds(log.sent) = <<"BoardUpdated", "PromptsUpdated",
                           "DocumentsUpdated", "ActivityUpdated",
                           "HashesChanged">>

\* C25: when the comparisons of a received triple that differs from the
\* last-seen one are done, every category whose fetch failed in the diff round
\* before it (on the same stream) has been fetched again.
C25_FailedRefetchRetried ==
    (pc = "diff_end" /\ hashes # last_hashes) => log.owed \subseteq log.fetched

-----------------------------------------------------------------------------
(* Stream blocks that carry no triple (poll.rs parse_sse_message lines      *)
(* 143-162, connect_sse lines 100-136)                                      *)

\* C26: reading a block that is not meaningful (no event line, no event line
\* named init or changed, no data line, no data line that decodes to a
\* triple; a block of comment lines is one of these) sends no message,
\* fetches nothing, leaves the last-seen triple as it was and leaves the
\* engine reading the same stream.
C26_IgnoredBlockIsNoOp ==
    [][\A message \in Blocks :
          LET Lines(k) == {i \in 1..Len(message) : message[i].k = k}
              meaningful ==
                  /\ \E i \in Lines("event") :
                        message[i].name \in {"init", "changed"}
                  /\ \E i \in Lines("data") : message[i].json.decodes
          IN  (~meaningful /\ ReadBlock(message)) =>
                  /\ chan' = chan
                  /\ last_hashes' = last_hashes
                  /\ pc' = "read"
                  /\ log'.fetched = {}
                  /\ log'.sent = <<>>
                  /\ stream' = stream
                  /\ was_connected' = was_connected
                  /\ log'.down = log.down]_vars

\* A block that was ignored on a stream that has a last-seen triple
C26_Witness ==
    /\ log.ignored
    /\ pc = "read"
    /\ last_hashes # None

-----------------------------------------------------------------------------
(* The UI loop with both of its sources: the keys and the engine's messages *)
(* (main.rs run_app lines 84-112)                                           *)

NextSerial ==
    \/ NextStable
    \/ UiTick
    \/ UiKey({"1", "2", "j", "r", "?"}, SrvWorld)
    \/ UiDrained

SpecSerial == Init /\ [][NextSerial]_vars

\* C27: the channel changes only by the engine appending messages behind
\* those under way and by the UI loop taking its first message; the message
\* taken is applied to AppState in that same step, whole, in the select of the
\* loop and not among the pending keys; AppState changes otherwise only by a
\* key handled to completion, which leaves the channel alone.
C27_AppliedInOrder ==
    [][LET taken == /\ ui_pc = "select"
                    /\ chan # <<>>
                    /\ chan' = Tail(chan)
                    /\ app' = handle_poll_message(app, Head(chan))
           appended == /\ Len(chan') > Len(chan)
                       /\ SubSeq(chan', 1, Len(chan)) = chan
                       /\ app' = app
           keyed == /\ ui_pc = "drain"
                    /\ chan' = chan
                    /\ app' = handle_key(app, lastKey', lastAnswer')
       IN  /\ chan' # chan => taken \/ appended
           /\ app' # app => taken \/ keyed]_vars

\* Keys were handled and the messages of a diff round were applied, the last
\* of them HashesChanged, with two messages still under way
C27_Witness ==
    /\ lastKey # ""
    /\ app.poll_hashes # None
    /\ Len(chan) = 2

-----------------------------------------------------------------------------
(* Keys with the focus on the tab bar (main.rs handle_key lines 203-221)    *)

\* C28 as claimed: with the focus on the tab bar and no overlay open, a key
\* other than the global ones (Ctrl+C, q, 1-4, ?, r) does this: h, Left and
\* BackTab show the previous view, l, Right and Tab the next one, the focus
\* staying on the tab bar; j, Down, Enter and Space move the focus to the
\* content, the view staying; every other key changes nothing.
C28_TabBarKeys ==
    [][\A key \in Keys \ {"Ctrl+c", "q", "1", "2", "3", "4", "?", "r"} :
          (KeyHandled(key) /\ app.focus = "TabBar" /\ app.overlay = None) =>
              app' = CASE key \in {"h", "Left", "BackTab"} ->
                            [app EXCEPT !.view = prev(@)]
                       [] key \in {"l", "Right", "Tab"} ->
                            [app EXCEPT !.view = next(@)]
                       [] key \in {"j", "Down", "Enter", "Space"} ->
                            [app EXCEPT !.focus = "Content"]
                       [] OTHER -> app]_vars

\* C28 as the code has it: the same, with Esc among the keys that move the
\* focus to the content.  No such key changes a navigation index.
C28_TabBarKeysAndEsc ==
    [][\A key \in Keys \ {"Ctrl+c", "q", "1", "2", "3", "4", "?", "r"} :
          (KeyHandled(key) /\ app.focus = "TabBar" /\ app.overlay = None) =>
              /\ app' = CASE key \in {"h", "Left", "BackTab"} ->
                               [app EXCEPT !.view = prev(@)]
                          [] key \in {"l", "Right", "Tab"} ->
                               [app EXCEPT !.view = next(@)]
                          [] key \in {"j", "Down", "Enter", "Space", "Esc"} ->
                               [app EXCEPT !.focus = "Content"]
                          [] OTHER -> app
              /\ \A f \in {"board_col", "board_row", "prompt_index",
                            "document_index", "activity_index"} :
                    app'[f] = app[f]]_vars

\* Esc was handled on the tab bar of a view reached by cycling: the focus is
\* on the content of the Activity view, whose list is loaded
C28_Witness ==
    /\ lastKey = "Esc"
    /\ app.focus = "Content"
    /\ app.view = "Activity"
    /\ app.activity # <<>>
    /\ app.overlay = None

-----------------------------------------------------------------------------
(* The help key (main.rs handle_key lines 192-195, handle_overlay_key lines *)
(* 477-514)                                                                 *)

\* C29: '?' handled with no overlay open opens the Help overlay with scroll
\* 0, and '?' handled while the Help overlay is open closes it.
C29_HelpToggles ==
    [][KeyHandled("?") =>
          /\ app.overlay = None => app'.overlay = Some(Help(0))
          /\ (IsSome(app.overlay) /\ Unwrap(app.overlay).tag = "Help") =>
                app'.overlay = None]_vars

-----------------------------------------------------------------------------
(* The force-refresh (main.rs handle_key lines 196-199,                     *)
(* refresh_current_view lines 575-603)                                      *)

\* C30: 'r' handled with no overlay open: when the fetch of the current
\* view's collection succeeds, that collection becomes what was fetched, the
\* indices are clamped to it and nothing else changes; when the fetch fails,
\* AppState stays as it is.  Connection status, overlay, view and focus stay
\* in both cases.
C30_RefreshReplacesOne ==
    [][(KeyHandled("r") /\ app.overlay = None) =>
          LET got == lastAnswer'.fetch
              coll == category(app.view)
              kept == {"view", "overlay", "should_quit", "focus", "version",
                       "config", "connection", "last_poll", "poll_hashes",
                       "loading"}
                      \cup ({"board", "prompts", "documents", "activity"}
                            \ {coll})
              new == IF coll = "board" THEN Some(Unwrap(got))
                     ELSE Unwrap(got)
          IN  /\ \A f \in kept : app'[f] = app[f]
              /\ IF IsOk(got)
                 THEN /\ app'[coll] = new
                      /\ app' = clamp_indices(ensure_board_row_vec(
                                    [app EXCEPT ![coll] = new]))
                 ELSE app' = app]_vars

\* A refresh of the Board view whose fetch succeeded and brought another
\* board than the one held before
C30_Witness ==
    /\ lastKey = "r"
    /\ app.overlay = None
    /\ app.view = "Board"
    /\ lastAnswer.fetch = Ok(<<>>)
    /\ app.board = Some(<<>>)
    /\ Len(app.board_row) = 2

-----------------------------------------------------------------------------
(* The cycle of the views (app.rs View::index, from_index, next, prev,      *)
(* lines 23-48)                                                             *)

\* C31: for the view shown, next and prev undo each other, four times next
\* comes back to it after passing through all four views, and next of
\* Activity is Board.
C31_ViewCycle ==
    LET v == app.view
    IN  /\ prev(next(v)) = v
        /\ next(prev(v)) = v
        /\ next(next(next(next(v)))) = v
        /\ {v, next(v), next(next(v)), next(next(next(v)))} =
              {"Board", "Prompts", "Documents", "Activity"}
        /\ v = "Activity" => next(v) = "Board"

\* The Activity view was reached from the Board view by the previous-view key
\* of the tab bar
C31_Witness ==
    /\ lastKey = "Left"
    /\ app.focus = "TabBar"
    /\ app.view = "Activity"

-----------------------------------------------------------------------------
(* The end of the UI loop (main.rs run_app lines 88-112, handle_key lines   *)
(* 169-187)                                                                 *)

\* C32: once should_quit is set, AppState does not change any more: no key
\* and no message is applied before the loop returns.
C32_NothingAfterQuit == [][app.should_quit => app' = app]_vars

-----------------------------------------------------------------------------
(* The UI loop's turn to the keys (main.rs run_app lines 88-107)            *)

\* The UI loop with its keys, and the engine on a stream that stays open and
\* keeps delivering blocks
NextInput ==
    \/ InitialFetch(FixedWorld)
    \/ ConnectOk(<<>>)
    \/ ReadAny
    \/ DiffBoard(FixedWorld)
    \/ DiffPrompts(FixedWorld)
    \/ DiffDocuments(FixedWorld)
    \/ DiffActivity(FixedWorld)
    \/ DiffEnd
    \/ UiRecv
    \/ UiTick
    \/ UiKey({"j"}, FixedWorld)
    \/ UiDrained

\* The scheduling of run_app: a message in the channel is received
\* (rx.recv() is ready, line 102), the drain of the pending keys ends (line
\* 95), and the 50 ms sleep of the select (line 94), which is started anew in
\* every iteration of the loop, completes when no message gets in before it
SpecInputFair ==
    /\ Init
    /\ [][NextInput]_vars
    /\ WF_vars(UiRecv)
    /\ WF_vars(UiDrained)
    /\ WF_vars(chan = <<>> /\ UiTick)

\* C33: the UI loop, waiting in its select, always gets to the pending keys,
\* whatever messages arrive.
C33_KeysAreReached == (ui_pc = "select") ~> (ui_pc = "drain")

-----------------------------------------------------------------------------
(* What applying a message leaves alone (main.rs handle_poll_message lines  *)
(* 115-167)                                                                 *)

\* C34: whatever message is applied to the AppState reached, the overlay
\* (with its scroll and its revision cursor), the view, the focus and
\* should_quit stay as they are; ConnectionLost, ConnectionRestored and Error
\* also leave every collection and every navigation index as it is.
C34_MessagesLeaveUiState ==
    \A m \in Messages(KeysWorld) :
        LET b == handle_poll_message(app, m)
        IN  /\ \A f \in {"overlay", "view", "focus", "should_quit"} :
                  b[f] = app[f]
            /\ m.kind \in {"ConnectionLost", "ConnectionRestored", "Error"} =>
                  \A f \in {"board", "prompts", "documents", "activity",
                            "board_col", "board_row", "prompt_index",
                            "document_index", "activity_index"} :
                      b[f] = app[f]

\* A task's detail is open, opened from a board that a message has replaced
\* by an empty one since
C34_Witness ==
    /\ IsSome(app.overlay)
    /\ Unwrap(app.overlay).tag = "TaskDetail"
    /\ app.board = Some(<<>>)
    /\ ui_pc = "select"

-----------------------------------------------------------------------------
(* The full sync after a failed initial one (poll.rs spawn_poller lines     *)
(* 32-58, connect_sse lines 82-89)                                          *)

\* C35: when the stream is open, the engine waits for its next block and
\* every message it sent is applied, AppState has left the loading state and
\* holds a version and a config, also when the initial sync had failed.
C35_LoadedOnceOpen ==
    (pc = "read" /\ chan = <<>>) =>
        /\ ~app.loading
        /\ IsSome(app.version)
        /\ IsSome(app.config)

-----------------------------------------------------------------------------
(* The last-seen triple of a connection (poll.rs connect_sse lines 82-134)  *)

\* C36: a stream is opened with no last-seen triple, whatever was seen on the
\* stream before it; reading the first meaningful block of a stream records
\* its triple as the last-seen one, fetches nothing and sends no message.
C36_FirstTripleIsRecorded ==
    [][/\ (~StreamIsOpen /\ StreamIsOpen') => last_hashes' = None
       /\ \A message \in Blocks :
             (/\ last_hashes = None
              /\ parse_sse_message(message) # None
              /\ ReadBlock(message)) =>
                 /\ last_hashes' = parse_sse_message(message)
                 /\ chan' = chan
                 /\ pc' = "read"
                 /\ log'.fetched = {}
                 /\ log'.sent = <<>>]_vars

\* On a stream opened after an outage, whose resync failed, the first triple
\* was recorded without a message, though it differs from the triple that
\* AppState holds from the stream before
C36_Witness ==
    /\ pc = "read"
    /\ chan = <<>>
    /\ log.follow = "pending"
    /\ last_hashes # None
    /\ app.poll_hashes # None
    /\ app.poll_hashes # last_hashes

-----------------------------------------------------------------------------
(* A refresh by the user between a fetch of the engine and the application  *)
(* of its message (main.rs run_app lines 88-107, refresh_current_view lines *)
(* 575-603, poll.rs connect_sse lines 108-131)                              *)

\* C37: when the last key handled was a refresh whose fetch succeeded and
\* the collection of the view shown is still the remote's current one,
\* applying the next message of the channel does not replace that collection
\* by another, older, content.
C37_NoRegress ==
    [][LET coll == category(app.view)
           current == IF coll = "board" THEN Some(srv.board) ELSE srv[coll]
       IN  (/\ ui_pc = "select"
            /\ chan # <<>>
            /\ chan' = Tail(chan)
            /\ lastKey = "r"
            /\ IsOk(lastAnswer.fetch)
            /\ app[coll] = current) => app'[coll] = app[coll]]_vars

-----------------------------------------------------------------------------
(* Up in a column without tasks (main.rs handle_board_key lines 265-272,    *)
(* app.rs clamp_indices lines 196-210)                                      *)

\* C38: on the Board view with content focus, Up handled while the active
\* column has no tasks moves the focus to the tab bar.
C38_UpInEmptyColumn ==
    [][(/\ KeyHandled("Up")
        /\ InContent(app, "Board")
        /\ column_count(app) > 0
        /\ current_column_tasks(app) = <<>>) => app'.focus = "TabBar"]_vars

-----------------------------------------------------------------------------
(* ConnectionRestored among the engine's messages (poll.rs spawn_poller     *)
(* lines 43-62, connect_sse lines 82-89)                                    *)

\* C39: whenever the engine sends ConnectionRestored, it sends one, and it
\* has sent a ConnectionLost since the stream was last open, so after any
\* ConnectionRestored sent before; none of the messages sent with it is a
\* ConnectionLost.
C39_RestoredFollowsLost ==
    [][LET new == SubSeq(chan', Len(chan) + 1, Len(chan'))
       IN  (/\ Len(chan') > Len(chan)
            /\ Count(new, "ConnectionRestored") > 0) =>
               /\ Count(new, "ConnectionRestored") = 1
               /\ Count(new, "ConnectionLost") = 0
               /\ log.lost > 0
               /\ log.down]_vars

\* A ConnectionRestored is under way: a stream that had delivered a diff
\* round was lost, AppState shows Disconnected, and the stream is open again
C39_Witness ==
    /\ log.restored = 1
    /\ log.opened
    /\ log.healed
    /\ \E i \in 1..Len(chan) : chan[i].kind = "ConnectionRestored"
    /\ app.connection = "Disconnected"
    /\ app.poll_hashes # None

=============================================================================
